---- MODULE Spec2Model ----
(***************************************************************************)
(* gh_fetch.py: exhaustive pagination of GitHub issues / pull requests     *)
(* through the gh command-line client.                                     *)
(*                                                                         *)
(* Strings that the program compares or tests (timestamps, the cutoff) are *)
(* sequences of character codes, so that Python's lexicographic string     *)
(* comparison is modelled as it is computed.  A timestamp's date-and-time  *)
(* part, "YYYY-MM-DDTHH:MM:SS", is a fixed-width big-endian numeral; it is *)
(* modelled by the fixed-width decimal numeral of a count of seconds.      *)
(* Optional values (None) are sequences of length 0 or 1.                  *)
(*                                                                         *)
(* The coroutines of the program run on one asyncio event loop: code       *)
(* between two awaits is atomic.  Each action below is one such stretch.   *)
(***************************************************************************)
EXTENDS Integers, Sequences, FiniteSets, TLC

VARIABLES
    command,        \* "issues" | "prs" | "all"
    repo,           \* --repo option: << >> (None) or <<string>>
    hours,          \* --hours option: << >> (None) or <<integer>>
    catalog,        \* per item type, the items the backend may return
    main_pc,        \* position of async_main
    target_repo,    \* async_main: target_repo
    resolver_code,  \* exit code of `gh repo view`, << >> while not run
    exit_code,      \* exit code of the process, << >> while running
    rendered,       \* what the presenter has printed: {<<item type, count>>}
    fpc,            \* per fetcher: "idle" | "await" | "done"
    all_items,      \* per fetcher: fetch_all_items.all_items
    page,           \* per fetcher: fetch_all_items.page
    fetched_count,  \* per fetcher: fetch_all_items.fetched_count
    search_filter,  \* per fetcher: the --search filter of the query in flight
    result,         \* per fetcher: the list fetch_all_items returned
    warned,         \* per fetcher: the safety-limit warning was printed
    queries,        \* per fetcher: number of page queries issued so far
    cutoff,         \* per fetcher: the cutoff instant the time filter computed
    last_status,    \* per fetcher: outcome of the last page query
    honest,         \* per fetcher: every answer so far was the newest matching items
    alone           \* per fetcher: the frame of the same fetcher run alone

vars == <<command, repo, hours, catalog, main_pc, target_repo, resolver_code,
          exit_code, rendered, fpc, all_items, page, fetched_count,
          search_filter, result, warned, queries, cutoff,
          last_status, honest, alone>>

mainVars == <<command, repo, hours, catalog, main_pc, target_repo,
              resolver_code, exit_code, rendered>>

---------------------------------------------------------------------------
(* Bounds and program constants *)

\* Page size of one query.  The program uses 500; the model a small page.
BATCH_SIZE == 2

\* The page number above which the safety limit stops the loop.
MAX_PAGES == 20

\* timedelta(hours=h) is h * 3600 seconds.
HOUR_SECONDS == 3600

\* Clock ticks per second: datetime.now() has sub-second resolution
\* (microseconds in the program).
TICKS_PER_SECOND == 2

Kinds == {"issue", "pr"}

Last(s) == s[Len(s)]

Range(s) == {s[i] : i \in DOMAIN s}

---------------------------------------------------------------------------
(* Strings and timestamps *)

RECURSIVE Digits(_, _)
\* The decimal numeral of n, w characters wide (character codes 48..57).
Digits(n, w) == IF w = 0 THEN << >> ELSE Append(Digits(n \div 10, w - 1), 48 + (n % 10))

RECURSIVE DigitsValue(_)
DigitsValue(s) == IF s = << >> THEN 0 ELSE 10 * DigitsValue(SubSeq(s, 1, Len(s) - 1)) + (Last(s) - 48)

\* The date-and-time part of a timestamp.
DateTime(sec) == Digits(sec, 4)

\* A timestamp as gh prints it: "YYYY-MM-DDTHH:MM:SSZ" (90 is "Z").
GitHubStamp(sec) == DateTime(sec) \o <<90>>

\* The instant, in seconds, a gh timestamp denotes.
StampSeconds(s) == DigitsValue(SubSeq(s, 1, 4))

\* datetime.isoformat() of an aware UTC datetime, t in clock ticks:
\* "YYYY-MM-DDTHH:MM:SS[.ffffff]+00:00"; the fraction is printed only when
\* the microsecond field is not zero (46 is ".", 43 "+", 58 ":").
IsoFormat(t) ==
    LET micro == ((t % TICKS_PER_SECOND) * 1000000) \div TICKS_PER_SECOND
    IN  DateTime(t \div TICKS_PER_SECOND)
          \o (IF micro = 0 THEN << >> ELSE <<46>> \o Digits(micro, 6))
          \o <<43, 48, 48, 58, 48, 48>>

RECURSIVE StrGE(_, _)
\* Python's a >= b on strings: lexicographic by character code.
StrGE(a, b) ==
    IF b = << >> THEN TRUE
    ELSE IF a = << >> THEN FALSE
    ELSE IF Head(a) > Head(b) THEN TRUE
    ELSE IF Head(a) < Head(b) THEN FALSE
    ELSE StrGE(Tail(a), Tail(b))

---------------------------------------------------------------------------
(* Items and the backend *)

\* One issue or pull request as the JSON of gh carries it.  kind is not a
\* field of the JSON: it records which list command produced the item.
\* A missing createdAt / updatedAt is the empty string, as item.get(k, "")
\* reads it.
Item(k, n, created, updated) ==
    [kind |-> k, number |-> n, createdAt |-> created, updatedAt |-> updated]

OldSeconds == HOUR_SECONDS - 1

NewSeconds == HOUR_SECONDS

\* Creation timestamps an item of the backend may carry.
Profiles == << << >>, GitHubStamp(OldSeconds), GitHubStamp(NewSeconds) >>

\* The backends of one item type with n items.  Item numbers are only ever
\* compared for equality, so backends are enumerated up to renumbering.
Catalogs(k, n) ==
    { [i \in 1..n |-> Item(k, i, Profiles[c[i]], Profiles[c[i]])] :
        c \in { d \in [1..n -> DOMAIN Profiles] :
                  \A i \in 1..n : i < n => d[i] >= d[i + 1] } }

\* Sequences without repetition of at most n elements of S.
DistinctSeqs(S, n) ==
    UNION { { s \in [1..m -> S] : \A i, j \in 1..m : i # j => s[i] # s[j] } : m \in 0..n }

\* The pages a query for item type k may be answered with.
Pages(k) == DistinctSeqs(Range(catalog[k]), BATCH_SIZE)

\* What stdout may carry of the items when gh fails or prints garbage.
Fragments(k) == DistinctSeqs(Range(catalog[k]), 1)

\* An answer of `gh <type> list`: exit code, whether stdout parses as JSON,
\* and the items stdout carries.
Responses(k) ==
    [code : {0}, parses : {TRUE}, items : Pages(k)]
        \cup [code : {1}, parses : BOOLEAN, items : Fragments(k)]
        \cup [code : {0}, parses : {FALSE}, items : Fragments(k)]

NoFilter == [qualifier |-> "", value |-> << >>]

CreatedBefore(stamp) == [qualifier |-> "created:<", value |-> stamp]

\* The items of the backend a query with filter flt matches.
Matching(k, flt) ==
    { it \in Range(catalog[k]) :
        flt.qualifier = "" \/ StampSeconds(it.createdAt) < StampSeconds(flt.value) }

\* p is the answer of a backend that returns the newest matching items,
\* newest first (ties in any order), at most BATCH_SIZE of them.
NewestFirst(k, flt, p) ==
    LET m == Matching(k, flt)
    IN  /\ \A it \in Range(catalog[k]) : it.createdAt # << >>
        /\ Range(p) \subseteq m
        /\ Len(p) = (IF Cardinality(m) < BATCH_SIZE THEN Cardinality(m) ELSE BATCH_SIZE)
        /\ \A i \in 1..(Len(p) - 1) :
              StampSeconds(p[i].createdAt) >= StampSeconds(p[i + 1].createdAt)
        /\ \A it \in m \ Range(p) : \A i \in DOMAIN p :
              StampSeconds(it.createdAt) <= StampSeconds(p[i].createdAt)

---------------------------------------------------------------------------
(* fetch_items_page and fetch_all_items *)

\* Mutation of FetchItemsPage: the exit code and the parse error are not
\* checked.
FetchItemsPageUnchecked(resp) == resp.items

\* fetch_items_page: the list a page query yields.
FetchItemsPage(resp) ==
    IF resp.code # 0 THEN << >>
    ELSE IF resp.parses THEN resp.items
    ELSE << >>

Status(resp) ==
    IF resp.code # 0 THEN "exit_nonzero"
    ELSE IF resp.parses THEN "ok"
    ELSE "bad_json"

\* cutoff in clock ticks: datetime.now(UTC) - timedelta(hours=hours).
Cutoff(h, now) == now - h * HOUR_SECONDS * TICKS_PER_SECOND

\* The comparison of the list comprehension of the time filter.
Recent(it, cutoff_str) ==
    StrGE(it.createdAt, cutoff_str) \/ StrGE(it.updatedAt, cutoff_str)

\* The time filter at the end of fetch_all_items.
RecencyFilter(items, hrs, now) ==
    IF hrs = << >> THEN items
    ELSE LET cutoff_str == IsoFormat(Cutoff(hrs[1], now))
             Keep(it) == Recent(it, cutoff_str)
         IN  SelectSeq(items, Keep)

\* Mutation of Deduplicate: the page is appended as it came.
DeduplicateNothing(acc, items) == items

\* `item["number"] not in existing_numbers` over a page.
Deduplicate(acc, items) ==
    LET existing_numbers == {acc[i].number : i \in DOMAIN acc}
        Keep(it) == it.number \notin existing_numbers
    IN  SelectSeq(items, Keep)

\* Mutation of LastCreated: the boundary is taken from the first item.
FirstCreated(acc) == Head(acc).createdAt

\* The boundary the continuation query is built from.
LastCreated(acc) == Last(acc).createdAt

\* `if page > 20`.
SafetyLimit(p) == p > MAX_PAGES

\* The frame of fetch_all_items before it is called.
IdleFrame ==
    [pc |-> "idle", all_items |-> << >>, page |-> 0, fetched_count |-> 0,
     search_filter |-> NoFilter, result |-> << >>, warned |-> FALSE,
     queries |-> 0, cutoff |-> << >>]

\* Lines 123-128: up to the await of the first page query.
CalledFrame ==
    [IdleFrame EXCEPT !.pc = "await", !.page = 1, !.queries = 1]

\* Lines 165-180: the time filter and the return.
Finish(fr, hrs, now) ==
    [fr EXCEPT !.pc = "done",
               !.result = RecencyFilter(fr.all_items, hrs, now),
               !.cutoff = IF hrs = << >> THEN << >> ELSE <<Cutoff(hrs[1], now)>>]

\* Mutation of LoopHead: the boundary is not tested for emptiness.
LoopHeadUnchecked(fr, hrs, now) ==
    IF fr.fetched_count = BATCH_SIZE
    THEN [fr EXCEPT !.pc = "await",
                    !.page = fr.page + 1,
                    !.search_filter = CreatedBefore(Last(fr.all_items).createdAt),
                    !.queries = fr.queries + 1]
    ELSE Finish(fr, hrs, now)

\* Lines 135-145: the loop test and the head of the loop body, up to the
\* await of the continuation query.
LoopHead(fr, hrs, now) ==
    IF fr.fetched_count = BATCH_SIZE
    THEN LET next == [fr EXCEPT !.page = fr.page + 1]
             last_created == LastCreated(fr.all_items)
         IN  IF last_created = << >>
             THEN Finish(next, hrs, now)
             ELSE [next EXCEPT !.pc = "await",
                               !.search_filter = CreatedBefore(last_created),
                               !.queries = fr.queries + 1]
    ELSE Finish(fr, hrs, now)

\* Lines 129-132: the first page arrives.
FirstPage(fr, items, hrs, now) ==
    LoopHead([fr EXCEPT !.fetched_count = Len(items),
                        !.all_items = fr.all_items \o items], hrs, now)

\* Mutation of ContinuationPage: an empty page is taken for a transient
\* failure and the query is issued again, up to the safety limit.
ContinuationPageRetry(fr, items, hrs, now) ==
    IF Len(items) = 0
    THEN IF fr.page > MAX_PAGES
         THEN Finish([fr EXCEPT !.fetched_count = 0, !.warned = TRUE], hrs, now)
         ELSE [fr EXCEPT !.fetched_count = 0, !.pc = "await",
                         !.page = fr.page + 1, !.queries = fr.queries + 1]
    ELSE LET got == [fr EXCEPT !.fetched_count = Len(items),
                               !.all_items = fr.all_items \o Deduplicate(fr.all_items, items)]
         IN  IF got.page > MAX_PAGES
             THEN Finish([got EXCEPT !.warned = TRUE], hrs, now)
             ELSE IF got.fetched_count = BATCH_SIZE /\ Last(got.all_items).createdAt # << >>
                  THEN [got EXCEPT !.pc = "await",
                                   !.page = got.page + 1,
                                   !.search_filter = CreatedBefore(Last(got.all_items).createdAt),
                                   !.queries = got.queries + 1]
                  ELSE Finish(got, hrs, now)

\* Lines 146-163: a continuation page arrives.
ContinuationPage(fr, items, hrs, now) ==
    LET got == [fr EXCEPT !.fetched_count = Len(items)]
    IN  IF got.fetched_count = 0
        THEN Finish(got, hrs, now)
        ELSE LET new_items == Deduplicate(got.all_items, items)
                 ext == [got EXCEPT !.all_items = got.all_items \o new_items]
             IN  IF SafetyLimit(ext.page)
                 THEN Finish([ext EXCEPT !.warned = TRUE], hrs, now)
                 ELSE LoopHead(ext, hrs, now)

\* fetch_all_items resumes from an await with the items of a page.
Resume(fr, items, hrs, now) ==
    IF fr.page = 1
    THEN FirstPage(fr, items, hrs, now)
    ELSE ContinuationPage(fr, items, hrs, now)

\* The local variables of fetcher f.
Frame(f) ==
    [pc |-> fpc[f], all_items |-> all_items[f], page |-> page[f],
     fetched_count |-> fetched_count[f], search_filter |-> search_filter[f],
     result |-> result[f], warned |-> warned[f], queries |-> queries[f],
     cutoff |-> cutoff[f]]

\* Mutation of LocalStore: the variable is shared by the two coroutines.
SharedStore(var, f, val) == [g \in DOMAIN var |-> val]

\* A local variable of fetcher f is assigned: the other coroutine has its
\* own frame.
LocalStore(var, f, val) == [var EXCEPT ![f] = val]

StoreFrame(f, fr) ==
    /\ fpc' = LocalStore(fpc, f, fr.pc)
    /\ all_items' = LocalStore(all_items, f, fr.all_items)
    /\ page' = LocalStore(page, f, fr.page)
    /\ fetched_count' = LocalStore(fetched_count, f, fr.fetched_count)
    /\ search_filter' = LocalStore(search_filter, f, fr.search_filter)
    /\ result' = LocalStore(result, f, fr.result)
    /\ warned' = LocalStore(warned, f, fr.warned)
    /\ queries' = LocalStore(queries, f, fr.queries)
    /\ cutoff' = LocalStore(cutoff, f, fr.cutoff)

\* The instants datetime.now(UTC) may return; read only when --hours is given.
NowSeconds == 2 * HOUR_SECONDS

Nows ==
    IF hours = << >> THEN {0}
    ELSE {NowSeconds * TICKS_PER_SECOND, NowSeconds * TICKS_PER_SECOND + 1}

---------------------------------------------------------------------------
(* The commands *)

\* The fetchers a command runs.
Active ==
    CASE command = "issues" -> {"issue"}
      [] command = "prs" -> {"pr"}
      [] OTHER -> Kinds

\* `repo or ...`: None and the empty string are falsy.
Truthy(opt) == opt # << >> /\ opt[1] # ""

\* `target_repo = repo or await get_current_repo()` with --repo given.
UseGivenRepo ==
    /\ main_pc = "start"
    /\ Truthy(repo)
    /\ target_repo' = repo[1]
    /\ main_pc' = "fetching"
    /\ UNCHANGED <<command, repo, hours, catalog, resolver_code, exit_code, rendered>>
    /\ UNCHANGED <<fpc, all_items, page, fetched_count, search_filter, result,
                   warned, queries, cutoff, last_status, honest, alone>>

\* get_current_repo: `gh repo view` exits 0.
ResolveRepo ==
    /\ main_pc = "start"
    /\ ~Truthy(repo)
    /\ resolver_code' = <<0>>
    /\ target_repo' = "owner/repo"
    /\ main_pc' = "fetching"
    /\ UNCHANGED <<command, repo, hours, catalog, exit_code, rendered>>
    /\ UNCHANGED <<fpc, all_items, page, fetched_count, search_filter, result,
                   warned, queries, cutoff, last_status, honest, alone>>

\* Mutation of ResolveRepoFails: the exit code of `gh repo view` is not
\* checked and the command goes on with what gh printed.
ResolveRepoFailsUnchecked ==
    /\ main_pc = "start"
    /\ ~Truthy(repo)
    /\ resolver_code' = <<1>>
    /\ target_repo' = ""
    /\ main_pc' = "fetching"
    /\ UNCHANGED <<command, repo, hours, catalog, exit_code, rendered>>
    /\ UNCHANGED <<fpc, all_items, page, fetched_count, search_filter, result,
                   warned, queries, cutoff, last_status, honest, alone>>

\* get_current_repo: `gh repo view` exits non-zero, typer.Exit(1).
ResolveRepoFails ==
    /\ main_pc = "start"
    /\ ~Truthy(repo)
    /\ resolver_code' = <<1>>
    /\ exit_code' = <<1>>
    /\ main_pc' = "exit"
    /\ UNCHANGED <<command, repo, hours, catalog, target_repo, rendered>>
    /\ UNCHANGED <<fpc, all_items, page, fetched_count, search_filter, result,
                   warned, queries, cutoff, last_status, honest, alone>>

\* fetch_all_items is called and runs to the await of its first query.
Call(f) ==
    /\ main_pc = "fetching"
    /\ f \in Active
    /\ fpc[f] = "idle"
    /\ StoreFrame(f, CalledFrame)
    /\ alone' = [alone EXCEPT ![f] = CalledFrame]
    /\ UNCHANGED <<last_status, honest>>
    /\ UNCHANGED mainVars

\* The page query of fetcher f is answered with resp; the fetcher runs to
\* its next await or to its return.
Receive(f, resp) ==
    /\ fpc[f] = "await"
    /\ \E now \in Nows :
          /\ StoreFrame(f, Resume(Frame(f), FetchItemsPage(resp), hours, now))
          /\ alone' = [alone EXCEPT ![f] = Resume(alone[f], FetchItemsPage(resp), hours, now)]
    /\ last_status' = [last_status EXCEPT ![f] = Status(resp)]
    /\ honest' = [honest EXCEPT ![f] =
                    /\ honest[f]
                    /\ Status(resp) = "ok"
                    /\ NewestFirst(f, search_filter[f], resp.items)]
    /\ UNCHANGED mainVars

\* gh prints a JSON list.
ReceivePage(f) ==
    \E resp \in Responses(f) : resp.code = 0 /\ resp.parses /\ Receive(f, resp)

\* gh exits non-zero.
ReceiveError(f) ==
    \E resp \in Responses(f) : resp.code # 0 /\ Receive(f, resp)

\* gh exits 0 and prints what json.loads rejects.
ReceiveGarbage(f) ==
    \E resp \in Responses(f) : resp.code = 0 /\ ~resp.parses /\ Receive(f, resp)

\* All fetchers of the command have returned: the panel and the output.
Render ==
    /\ main_pc = "fetching"
    /\ \A f \in Active : fpc[f] = "done"
    /\ rendered' = {<<f, Len(result[f])>> : f \in Active}
    /\ exit_code' = <<0>>
    /\ main_pc' = "done"
    /\ UNCHANGED <<command, repo, hours, catalog, target_repo, resolver_code>>
    /\ UNCHANGED <<fpc, all_items, page, fetched_count, search_filter, result,
                   warned, queries, cutoff, last_status, honest, alone>>

FetcherInit ==
    /\ fpc = [f \in Kinds |-> "idle"]
    /\ all_items = [f \in Kinds |-> << >>]
    /\ page = [f \in Kinds |-> 0]
    /\ fetched_count = [f \in Kinds |-> 0]
    /\ search_filter = [f \in Kinds |-> NoFilter]
    /\ result = [f \in Kinds |-> << >>]
    /\ warned = [f \in Kinds |-> FALSE]
    /\ queries = [f \in Kinds |-> 0]
    /\ cutoff = [f \in Kinds |-> << >>]
    /\ last_status = [f \in Kinds |-> "none"]
    /\ honest = [f \in Kinds |-> TRUE]
    /\ alone = [f \in Kinds |-> IdleFrame]

\* The repository of the command runs: a full page of issues, and pull
\* requests one short of a full page.
CommandCatalog ==
    [k \in Kinds |->
        [i \in 1..(IF k = "issue" THEN BATCH_SIZE ELSE BATCH_SIZE - 1) |->
            Item(k, i, GitHubStamp(NewSeconds), GitHubStamp(NewSeconds))]]

\* A command is invoked.
Init ==
    /\ command \in {"issues", "prs", "all"}
    /\ repo \in {<< >>, <<"">>, <<"owner/repo">>}
    /\ hours \in {<< >>, <<1>>}
    /\ catalog = CommandCatalog
    /\ main_pc = "start"
    /\ target_repo = ""
    /\ resolver_code = << >>
    /\ exit_code = << >>
    /\ rendered = {}
    /\ FetcherInit

Next ==
    \/ UseGivenRepo
    \/ ResolveRepo
    \/ ResolveRepoFails
    \/ \E f \in Kinds : Call(f)
    \/ \E f \in Kinds : ReceivePage(f)
    \/ \E f \in Kinds : ReceiveError(f)
    \/ \E f \in Kinds : ReceiveGarbage(f)
    \/ Render

Spec == Init /\ [][Next]_vars

\* One call of fetch_all_items for issues, against every backend of
\* BATCH_SIZE + 1 items.
InitFetch ==
    /\ command = "issues"
    /\ repo = <<"owner/repo">>
    /\ hours \in {<< >>, <<1>>}
    /\ catalog \in { [k \in Kinds |-> IF k = "issue" THEN c ELSE << >>] :
                       c \in Catalogs("issue", BATCH_SIZE + 1) }
    /\ main_pc = "fetching"
    /\ target_repo = "owner/repo"
    /\ resolver_code = << >>
    /\ exit_code = << >>
    /\ rendered = {}
    /\ FetcherInit

NextFetch ==
    \/ \E f \in Kinds : Call(f)
    \/ \E f \in Kinds : ReceivePage(f)
    \/ \E f \in Kinds : ReceiveError(f)
    \/ \E f \in Kinds : ReceiveGarbage(f)

SpecFetch == InitFetch /\ [][NextFetch]_vars

---------------------------------------------------------------------------
(* Properties *)

Failures == {"exit_nonzero", "bad_json"}

\* Fetcher f took the step: its page query was answered.
ReceivedBy(f) ==
    /\ fpc[f] = "await"
    /\ fpc'[f] = "done" \/ queries'[f] = queries[f] + 1

\* No item number occurs twice in s.
NoDuplicates(s) == \A i, j \in DOMAIN s : i # j => s[i].number # s[j].number

\* The earliest creation instant among the items of s that carry one.
EarliestCreated(s) ==
    LET stamped == {StampSeconds(s[i].createdAt) : i \in {j \in DOMAIN s : s[j].createdAt # << >>}}
    IN  CHOOSE m \in stamped : \A x \in stamped : m <= x

\* stamp denotes an instant at or after the cutoff c (in clock ticks).
AtOrAfter(stamp, c) ==
    stamp # << >> /\ StampSeconds(stamp) * TICKS_PER_SECOND >= c

\* The items of s created or last updated at or after the cutoff c, in order.
CreatedOrUpdatedSince(s, c) ==
    LET Keep(it) == AtOrAfter(it.createdAt, c) \/ AtOrAfter(it.updatedAt, c)
    IN  SelectSeq(s, Keep)

\* The items of s whose creation or last-update timestamp, compared as a
\* string, is not below the printed cutoff c.
PrintedSince(s, c) ==
    LET Keep(it) == StrGE(it.createdAt, IsoFormat(c)) \/ StrGE(it.updatedAt, IsoFormat(c))
    IN  SelectSeq(s, Keep)

\* list is what the time filter leaves of items: all of them without
\* --hours, else those not below the cutoff c the filter computed.
Filtered(list, items, c) ==
    IF hours = << >> THEN list = items /\ c = << >>
    ELSE c # << >> /\ list = PrintedSince(items, c[1])

\* C1: against a backend that answers every query with the newest matching
\* items, and without --hours, fetch_all_items returns every item of the
\* backend.
C1_Complete ==
    \A f \in Kinds :
        (fpc[f] = "done" /\ honest[f] /\ hours = << >>)
            => Range(catalog[f]) \subseteq Range(result[f])

\* C2: no item number occurs more than once in the accumulator at any point
\* of the pagination, nor in the list fetch_all_items returns.
C2_Deduplicated ==
    \A f \in Kinds : NoDuplicates(all_items[f]) /\ NoDuplicates(result[f])

\* A continuation page that shared items with the accumulator and brought
\* one new item has been appended.
C2_Witness ==
    \E f \in Kinds :
        /\ queries[f] >= 2
        /\ fetched_count[f] = BATCH_SIZE
        /\ Len(all_items[f]) = BATCH_SIZE + 1

\* C3: when every page is full and carries creation timestamps,
\* fetch_all_items stops after 20 page queries and prints the safety-limit
\* warning.
C3_TwentyQueries ==
    \A f \in Kinds :
        ( /\ fpc[f] = "done"
          /\ fetched_count[f] = BATCH_SIZE
          /\ all_items[f][Len(all_items[f])].createdAt # << >> )
            => (queries[f] = MAX_PAGES /\ warned[f])

\* C4: a page query that exits non-zero or prints unparsable JSON counts as
\* zero items, leaves the accumulator unchanged, is followed by no further
\* query, does not abort the run, and fetch_all_items returns the items
\* accumulated before it, subject to the time filter.
C4_PartialResults ==
    [][\A f \in Kinds :
          (ReceivedBy(f) /\ last_status'[f] \in Failures)
              => /\ fetched_count'[f] = 0
                 /\ all_items'[f] = all_items[f]
                 /\ queries'[f] = queries[f]
                 /\ fpc'[f] = "done"
                 /\ exit_code' = << >>
                 /\ Filtered(result'[f], all_items[f], cutoff'[f])]_vars

\* A continuation query has failed after items were accumulated.
C4_Witness ==
    \E f \in Kinds :
        /\ last_status[f] \in Failures
        /\ fpc[f] = "done"
        /\ queries[f] >= 2
        /\ result[f] # << >>

\* C5: with --hours given, the returned list is exactly the accumulated
\* items, in order, whose creation or last-update instant is at or after
\* the cutoff.
C5_AtOrAfterCutoff ==
    \A f \in Kinds :
        (fpc[f] = "done" /\ hours # << >>)
            => /\ cutoff[f] # << >>
               /\ \E now \in Nows : cutoff[f][1] = now - hours[1] * HOUR_SECONDS * TICKS_PER_SECOND
               /\ result[f] = CreatedOrUpdatedSince(all_items[f], cutoff[f][1])

\* C6 as stated: the run ends with exit code 1 if and only if no --repo was
\* given and the repository resolver exits non-zero.
C6_OnlyWhenNoRepoGiven ==
    main_pc \in {"done", "exit"}
        => (exit_code = <<1>> <=> (repo = << >> /\ resolver_code = <<1>>))

\* C6: the run ends with exit code 1 if and only if --repo was absent or
\* empty and the repository resolver exits non-zero; then no page query was
\* issued and nothing was rendered; every other run ends with exit code 0.
C6_ExitCode ==
    /\ main_pc \in {"done", "exit"}
          => /\ exit_code = <<1>> <=> ((repo = << >> \/ repo = <<"">>) /\ resolver_code = <<1>>)
             /\ exit_code # <<1>> => exit_code = <<0>>
    /\ exit_code = <<1>> => (rendered = {} /\ \A f \in Kinds : queries[f] = 0)
    /\ main_pc \in {"start", "fetching"} => exit_code = << >>

\* The resolver has failed in the all command.
C6_Witness ==
    /\ command = "all"
    /\ main_pc = "exit"
    /\ resolver_code = <<1>>

\* C7 as stated: when the first page is full and the second page is empty,
\* exactly two page queries are issued and fetch_all_items returns the
\* first page's items.
C7_ReturnsFirstPage ==
    [][\A f \in Kinds :
          (ReceivedBy(f) /\ queries[f] = 2 /\ fetched_count'[f] = 0)
              => /\ fpc'[f] = "done"
                 /\ queries'[f] = 2
                 /\ Len(all_items[f]) = BATCH_SIZE
                 /\ all_items'[f] = all_items[f]
                 /\ result'[f] = all_items[f]]_vars

\* C7: when the first page is full and the second page is empty, exactly
\* two page queries are issued, the accumulator is the first page, and
\* fetch_all_items returns what the time filter leaves of it.
C7_TwoQueries ==
    [][\A f \in Kinds :
          (ReceivedBy(f) /\ queries[f] = 2 /\ fetched_count'[f] = 0)
              => /\ fpc'[f] = "done"
                 /\ queries'[f] = 2
                 /\ Len(all_items[f]) = BATCH_SIZE
                 /\ all_items'[f] = all_items[f]
                 /\ Filtered(result'[f], all_items[f], cutoff'[f])]_vars

\* The second page query was answered with an empty page.
C7_Witness ==
    \E f \in Kinds :
        /\ queries[f] = 2
        /\ fetched_count[f] = 0
        /\ last_status[f] = "ok"
        /\ fpc[f] = "done"

\* C8: in every interleaving of the two fetchers, each fetcher's frame and
\* returned list are those of the same fetcher run alone against the same
\* answers, and each accumulator holds items of its own type only.
C8_Isolation ==
    \A f \in Kinds :
        /\ Frame(f) = alone[f]
        /\ \A i \in DOMAIN all_items[f] : all_items[f][i].kind = f
        /\ \A i \in DOMAIN result[f] : result[f][i].kind = f

\* The pull-request fetcher has returned items while the issue fetcher is
\* in the middle of its pagination.
C8_Witness ==
    /\ command = "all"
    /\ fpc["issue"] = "await"
    /\ page["issue"] >= 2
    /\ fpc["pr"] = "done"
    /\ result["pr"] # << >>

\* C9 as stated: the boundary of every continuation query is the earliest
\* creation timestamp among the accumulated items.
C9_EarliestBoundary ==
    \A f \in Kinds :
        (fpc[f] = "await" /\ page[f] >= 2)
            => /\ search_filter[f].qualifier = "created:<"
               /\ StampSeconds(search_filter[f].value) = EarliestCreated(all_items[f])

\* C9: the boundary of every continuation query is the creation timestamp
\* of the last item of the accumulator; it is the earliest creation
\* timestamp accumulated when every page so far was the backend's
\* newest-first answer.
C9_LastItemBoundary ==
    \A f \in Kinds :
        (fpc[f] = "await" /\ page[f] >= 2)
            => /\ search_filter[f].qualifier = "created:<"
               /\ search_filter[f].value = all_items[f][Len(all_items[f])].createdAt
               /\ honest[f] => StampSeconds(search_filter[f].value) = EarliestCreated(all_items[f])

\* A continuation query is in flight after a page that brought new items.
C9_Witness ==
    \E f \in Kinds :
        /\ fpc[f] = "await"
        /\ page[f] >= 3
        /\ Len(all_items[f]) > BATCH_SIZE

\* C10 as stated: after a full page, when the last item of the accumulator
\* has no creation timestamp, no further query is issued, no filter with an
\* empty boundary is built, and the accumulated items are returned.
C10_ReturnsAccumulated ==
    \A f \in Kinds :
        /\ search_filter[f].qualifier # "" => search_filter[f].value # << >>
        /\ ( /\ fetched_count[f] = BATCH_SIZE
             /\ all_items[f][Len(all_items[f])].createdAt = << >> )
              => (fpc[f] = "done" /\ result[f] = all_items[f])

\* C10: after a full page, when the last item of the accumulator has no
\* creation timestamp, no further query is issued, no filter with an empty
\* boundary is ever built, and fetch_all_items returns what the time filter
\* leaves of the accumulated items.
C10_EarlyStop ==
    \A f \in Kinds :
        /\ search_filter[f].qualifier # "" => search_filter[f].value # << >>
        /\ ( /\ fetched_count[f] = BATCH_SIZE
             /\ all_items[f][Len(all_items[f])].createdAt = << >> )
              => (fpc[f] = "done" /\ Filtered(result[f], all_items[f], cutoff[f]))

\* A continuation page was full and its last new item has no creation
\* timestamp.
C10_Witness ==
    \E f \in Kinds :
        /\ fpc[f] = "done"
        /\ queries[f] >= 2
        /\ fetched_count[f] = BATCH_SIZE
        /\ all_items[f][Len(all_items[f])].createdAt = << >>

====
